---- MODULE Spec2Model ----
(***************************************************************************)
(* Fantasy-football stock market simulator: the calculation pipeline       *)
(*   load_data.py            match results -> team-match panel             *)
(*   features_engineering.py panel -> engineered features (+ features CSV) *)
(*   pricing.py              features CSV -> coefficients -> prices        *)
(*                                                                         *)
(* A DataFrame is a record [ok, cols, rows]: cols is the set of column     *)
(* names, rows a sequence of functions from cols to cell values.  A raised *)
(* exception is [ok |-> FALSE, error |-> <name>].  Floats are exact        *)
(* rationals <<num, den>> in lowest terms; NaN is the pair <<0, 0>>.       *)
(***************************************************************************)
EXTENDS Integers, Sequences, FiniteSets, TLC

VARIABLES op, arg, ret, matchesFile, xgFile, featuresFile, pricingFile

vars == <<op, arg, ret, matchesFile, xgFile, featuresFile, pricingFile>>

(***************************************************************************)
(* Bounds of the model.                                                    *)
(***************************************************************************)
\* longest match table handed to _expand_home_away
MaxPanelMatches == 2
\* longest match table behind a panel handed to add_basic_features
MaxMatches == 4
\* longest match table in MATCHES_FILE during pipeline runs
MaxFileMatches == 1
\* largest number of goals or cards in one cell
MaxCount == 1
\* longest synthetic per-team sequence handed to compute_stock_prices
MaxRows == 3
\* row counts tried on each side of the regression threshold
Margin == 2

(***************************************************************************)
(* Exact rational arithmetic standing for float64.                         *)
(***************************************************************************)
Abs(n) == IF n < 0 THEN -n ELSE n

RECURSIVE GCD(_, _)
GCD(a, b) == IF b = 0 THEN a ELSE GCD(b, a % b)

NaN == <<0, 0>>
IsNaN(x) == x[2] = 0

\* n/d in lowest terms, d # 0
Q(n, d) ==
    LET s == IF d < 0 THEN -1 ELSE 1
        g == GCD(Abs(n), Abs(d))
    IN  <<(s * n) \div g, (s * d) \div g>>

FromInt(n) == <<n, 1>>
RAdd(x, y) == IF IsNaN(x) \/ IsNaN(y) THEN NaN
              ELSE Q(x[1] * y[2] + y[1] * x[2], x[2] * y[2])
RSub(x, y) == IF IsNaN(x) \/ IsNaN(y) THEN NaN
              ELSE Q(x[1] * y[2] - y[1] * x[2], x[2] * y[2])
RMul(x, y) == IF IsNaN(x) \/ IsNaN(y) THEN NaN
              ELSE Q(x[1] * y[1], x[2] * y[2])
RDivInt(x, n) == IF IsNaN(x) \/ n = 0 THEN NaN ELSE Q(x[1], x[2] * n)
RLess(x, y) == x[1] * y[2] < y[1] * x[2]

RECURSIVE RSum(_)
RSum(s) == IF s = <<>> THEN FromInt(0) ELSE RAdd(s[1], RSum(Tail(s)))

RECURSIVE ISum(_)
ISum(s) == IF s = <<>> THEN 0 ELSE s[1] + ISum(Tail(s))

(***************************************************************************)
(* Frames.                                                                 *)
(***************************************************************************)
DF(cols, rows) == [ok |-> TRUE, cols |-> cols, rows |-> rows]
Err(e) == [ok |-> FALSE, error |-> e]
None == [ok |-> FALSE, error |-> "None"]
Absent == [exists |-> FALSE]

\* a missing integer cell (an empty CSV field)
NA == -1

Idx(s) == 1..Len(s)
Range(s) == {s[i] : i \in Idx(s)}

\* the rows of s at the positions in keep, in order (a boolean mask)
RECURSIVE SelectIdx(_, _, _)
SelectIdx(s, keep, i) ==
    IF i > Len(s) THEN <<>>
    ELSE IF i \in keep THEN <<s[i]>> \o SelectIdx(s, keep, i + 1)
    ELSE SelectIdx(s, keep, i + 1)

\* row r with column c set to v (the column is added when absent)
With(r, c, v) == (c :> v) @@ r
Without(r, c) == [k \in DOMAIN r \ {c} |-> r[k]] @@ <<>>

\* the sequence s with every element evaluated once
Eager(s) == s \o <<>>

(***************************************************************************)
(* Teams.  Strings order as in Python; the teams used order alphabetically.*)
(***************************************************************************)
CURRENT_TEAMS ==
    {"Arsenal", "Aston Villa", "Bournemouth", "Brentford",
     "Brighton and Hove Albion", "Burnley", "Chelsea", "Crystal Palace",
     "Everton", "Fulham", "Leeds United", "Liverpool", "Manchester City",
     "Manchester United", "Newcastle United", "Nottingham Forest",
     "Sunderland", "Tottenham Hotspur", "West Ham United",
     "Wolverhampton Wanderers"}

TeamsSorted == <<"Arsenal", "Chelsea", "Leicester City">>
Teams == {TeamsSorted[i] : i \in Idx(TeamsSorted)}
TeamRank(t) == CHOOSE i \in Idx(TeamsSorted) : TeamsSorted[i] = t

\* sort_values(["team", "date"]): a stable lexicographic sort
KeyLess(a, b) ==
    \/ TeamRank(a.team) < TeamRank(b.team)
    \/ a.team = b.team /\ a.date < b.date
KeyEq(a, b) == a.team = b.team /\ a.date = b.date

SortTeamDate(rows) ==
    LET rank(i) == Cardinality({j \in Idx(rows) :
                        \/ KeyLess(rows[j], rows[i])
                        \/ KeyEq(rows[j], rows[i]) /\ j < i}) + 1
    IN  Eager([k \in Idx(rows) |-> rows[CHOOSE i \in Idx(rows) : rank(i) = k]])

(***************************************************************************)
(* load_data.py                                                            *)
(***************************************************************************)
MatchCols == {"Date", "Season", "HomeTeam", "AwayTeam", "FTHG", "FTAG",
              "FTR", "HY", "AY", "HR", "AR"}
ExpandNeeds == MatchCols
PanelCols == {"date", "season", "team", "opponent", "home_away",
              "goals_for", "goals_against", "yellow", "red", "result", "pts"}

\* _result_from_pov
\* (variant: the away-win branch is missing)
ResultFromPovHomeOnly(full_result, home_away) ==
    IF full_result = "D" THEN "D"
    ELSE IF full_result = "H" /\ home_away = "h" THEN "W"
    ELSE "L"

ResultFromPov(full_result, home_away) ==
    IF full_result = "D" THEN "D"
    ELSE IF full_result = "H" /\ home_away = "h" THEN "W"
    ELSE IF full_result = "A" /\ home_away = "a" THEN "W"
    ELSE "L"

\* the map {"W": 3, "D": 1, "L": 0}
PtsOf(result) == CASE result = "W" -> 3 [] result = "D" -> 1 [] OTHER -> 0

HomeRow(m) ==
    [date |-> m.Date, season |-> m.Season, team |-> m.HomeTeam,
     opponent |-> m.AwayTeam, home_away |-> "h", goals_for |-> m.FTHG,
     goals_against |-> m.FTAG, yellow |-> m.HY, red |-> m.HR,
     full_result |-> m.FTR]

AwayRow(m) ==
    [date |-> m.Date, season |-> m.Season, team |-> m.AwayTeam,
     opponent |-> m.HomeTeam, home_away |-> "a", goals_for |-> m.FTAG,
     goals_against |-> m.FTHG, yellow |-> m.AY, red |-> m.AR,
     full_result |-> m.FTR]

\* result, pts added; full_result dropped
Tidy(r) ==
    LET res == ResultFromPov(r.full_result, r.home_away)
    IN  Without(With(With(r, "result", res), "pts", PtsOf(res)), "full_result")

\* _expand_home_away: all home rows, then all away rows
ExpandHomeAway(df) ==
    IF ~ df.ok THEN df
    ELSE IF ~ (ExpandNeeds \subseteq df.cols) THEN Err("KeyError")
    ELSE LET n == Len(df.rows)
             team_df == [i \in 1..(2 * n) |->
                            IF i <= n THEN HomeRow(df.rows[i])
                            ELSE AwayRow(df.rows[i - n])]
         IN  DF(PanelCols, Eager([i \in 1..(2 * n) |-> Tidy(team_df[i])]))

(***************************************************************************)
(* CSV files.  A file is its header (the columns in frame order) and one   *)
(* line of cells per row; DataFrame.to_csv(index=False) writes it and      *)
(* pd.read_csv reads it back.                                              *)
(***************************************************************************)
ColumnOrder ==
    <<"Date", "Season", "HomeTeam", "AwayTeam", "FTHG", "FTAG", "FTR", "FTR ",
      "HY", "AY", "HR", "AR",
      "league", "club_name", "xG", "xGA", "xg", "xga",
      "date", "season", "team", "opponent", "home_away", "goals_for",
      "goals_against", "yellow", "red", "result", "pts", "xG_for",
      "xG_against", "season_xg", "xGD", "clean_sheet", "card_points", "form3",
      "team_avg_pts", "opp_avg_pts", "delta_P", "price">>

ToCsv(df) ==
    LET has(c) == c \in df.cols
        header == SelectSeq(ColumnOrder, has)
    IN  [exists |-> TRUE, header |-> header,
         lines |-> Eager([i \in Idx(df.rows) |->
                            Eager([k \in Idx(header) |-> df.rows[i][header[k]]])])]

ReadCsv(file) ==
    IF ~ file.exists THEN Err("FileNotFoundError")
    ELSE LET at(c) == CHOOSE k \in Idx(file.header) : file.header[k] = c
         IN  DF(Range(file.header),
                Eager([i \in Idx(file.lines) |->
                          [c \in Range(file.header) |-> file.lines[i][at(c)]] @@ <<>>]))

\* c.strip() on a column name
Strip(c) == IF c = "FTR " THEN "FTR" ELSE c

\* the calendar year of a date (dates count days of 2025)
YearOf(d) == 2025 + (d \div 366)

\* _load_matches: names stripped, rows with an unparsable date dropped,
\* Season derived from the date when the file has none
LoadMatches(file) ==
    LET raw == ReadCsv(file)
    IN  IF ~ raw.ok THEN raw
        ELSE IF "Date" \notin {Strip(c) : c \in raw.cols} THEN Err("KeyError")
        ELSE
        LET cols == {Strip(c) : c \in raw.cols}
            named(r) == [c \in cols |->
                            r[CHOOSE k \in raw.cols : Strip(k) = c]] @@ <<>>
            rows == Eager([i \in Idx(raw.rows) |-> named(raw.rows[i])])
            parsed(i) == rows[i].Date # NA
            kept == SelectIdx(rows, {n \in Idx(rows) : parsed(n)}, 1)
        IN  IF "Season" \in cols THEN DF(cols, kept)
            ELSE DF(cols \cup {"Season"},
                    Eager([i \in Idx(kept) |->
                              With(kept[i], "Season", YearOf(kept[i].Date))]))

\* _load_xg: None without the file; EPL rows only, rows with an unparsable
\* date dropped, club_name/xg/xga renamed, the useful columns kept
XgKeep == {"date", "team", "xG_for", "xG_against", "season", "home_away"}
XgRename(c) ==
    CASE c = "club_name" -> "team"
      [] c = "xg" -> "xG_for"
      [] c = "xga" -> "xG_against"
      [] OTHER -> c

\* c.strip().lower() on a column name
Lower(c) == CASE c = "xG" -> "xg" [] c = "xGA" -> "xga" [] OTHER -> c

LoadXg(file) ==
    IF ~ file.exists THEN None
    ELSE
    LET csv == ReadCsv(file)
        raw == DF({Lower(c) : c \in csv.cols},
                  Eager([i \in Idx(csv.rows) |->
                            [c \in {Lower(k) : k \in csv.cols} |->
                                csv.rows[i][CHOOSE k \in csv.cols : Lower(k) = c]]
                            @@ <<>>]))
        epl(i) == "league" \in raw.cols => raw.rows[i].league = "EPL"
        inLeague == SelectIdx(raw.rows, {n \in Idx(raw.rows) : epl(n)}, 1)
    IN  IF "date" \notin raw.cols THEN Err("ValueError")
        ELSE
        LET parsed(i) == inLeague[i].date # NA
            dated == SelectIdx(inLeague, {n \in Idx(inLeague) : parsed(n)}, 1)
            cols == {XgRename(c) : c \in raw.cols}
            keep == cols \cap XgKeep
            renamed(r) == [c \in keep |->
                              r[CHOOSE k \in raw.cols : XgRename(k) = c]] @@ <<>>
        IN  IF "team" \notin cols THEN Err("KeyError")
            ELSE DF(keep, Eager([i \in Idx(dated) |-> renamed(dated[i])]))

\* team_panel.merge(xg_df, on=merge_cols, how="left", suffixes=("", "_xg"))
MergeXg(panel, xg) ==
    LET on == {"date", "team"} \cup ({"home_away"} \cap xg.cols)
        extra == xg.cols \ on
        name(c) == IF c \in panel.cols THEN "season_xg" ELSE c
        pos == [j \in Idx(xg.rows) |-> j]
        joined(r) ==
            LET hit(j) == \A c \in on : xg.rows[j][c] = r[c]
                m == SelectIdx(pos, {n \in Idx(pos) : hit(n)}, 1)
                cells(x) == [c \in {name(k) : k \in extra} |->
                                x[CHOOSE k \in extra : name(k) = c]]
                blank == [c \in {name(k) : k \in extra} |->
                             IF c = "season_xg" THEN NA ELSE NaN]
            IN  IF m = <<>> THEN <<blank @@ r>>
                ELSE Eager([k \in Idx(m) |-> cells(xg.rows[m[k]]) @@ r])
        RECURSIVE from(_)
        from(i) == IF i > Len(panel.rows) THEN <<>>
                   ELSE joined(panel.rows[i]) \o from(i + 1)
    IN  DF(panel.cols \cup {name(c) : c \in extra}, from(1))

\* load_team_match_panel
LoadTeamMatchPanel(matches, xgfile) ==
    LET team_panel == ExpandHomeAway(LoadMatches(matches))
        xg_df == LoadXg(xgfile)
    IN  IF ~ team_panel.ok THEN team_panel
        ELSE IF xg_df = None THEN DF(team_panel.cols, SortTeamDate(team_panel.rows))
        ELSE IF ~ xg_df.ok THEN xg_df
        ELSE LET merged == MergeXg(team_panel, xg_df)
             IN  DF(merged.cols, SortTeamDate(merged.rows))

(***************************************************************************)
(* features_engineering.py                                                 *)
(***************************************************************************)
FeatureNeeds == {"team", "date", "goals_against", "yellow", "red", "pts",
                 "opponent"}
FeatureCols == {"xG_for", "xG_against", "xGD", "clean_sheet", "card_points",
                "form3", "team_avg_pts", "opp_avg_pts"}

\* fillna(0.0) on a float cell, fillna(0).astype(int) on a count
FillNa(x) == IF IsNaN(x) THEN FromInt(0) ELSE x
FillNaInt(n) == IF n = NA THEN 0 ELSE n

Max(a, b) == IF a > b THEN a ELSE b
Mean(s) == IF s = <<>> THEN NaN ELSE Q(ISum(s), Len(s))
RMean(s) == IF s = <<>> THEN NaN ELSE RDivInt(RSum(s), Len(s))

\* the positions of team t's rows, in frame order (one group of groupby)
GroupOf(rows, t) ==
    LET pos == [i \in Idx(rows) |-> i]
        same(i) == rows[i].team = t
    IN  SelectIdx(pos, {n \in Idx(pos) : same(n)}, 1)

\* x.rolling(window=3, min_periods=1).mean()
(* variant: a window of two *)
RollingMeanTwo(x) == [k \in Idx(x) |-> Mean(SubSeq(x, Max(1, k - 1), k))]

RollingMean(x) == [k \in Idx(x) |-> Mean(SubSeq(x, Max(1, k - 2), k))]

\* x.expanding().mean()
(* variant: the mean of the matches before the current one *)
ExpandingMeanShifted(x) ==
    [k \in Idx(x) |-> IF k = 1 THEN FromInt(x[1]) ELSE Mean(SubSeq(x, 1, k - 1))]

ExpandingMean(x) == [k \in Idx(x) |-> Mean(SubSeq(x, 1, k))]

\* x.cumsum()
CumSum(x) == [k \in Idx(x) |-> RSum(SubSeq(x, 1, k))]

\* the function handed to transform, by name
Transform(how, x) ==
    CASE how = "rolling" -> RollingMean(x)
      [] how = "expanding" -> ExpandingMean(x)
      [] how = "cumsum" -> CumSum(x)

\* df.groupby("team")[col].transform(how): how over each team's cells in frame
\* order, each value put back on its own row
GroupTransform(rows, col, how) ==
    Eager([i \in Idx(rows) |->
        LET g == GroupOf(rows, rows[i].team)
            x == Eager([k \in Idx(g) |-> rows[g[k]][col]])
            k == CHOOSE k \in Idx(g) : g[k] = i
        IN  Transform(how, x)[k]])

\* df.merge(opp_avg, on=["date", "opponent"], how="left"): the left rows in
\* order, one output row per matching right row, a NaN row when none matches
(* variant: the right table keyed by the row's own team *)
OppMatchesSelf(rows, i) ==
    LET pos == [j \in Idx(rows) |-> j]
        hit(j) == rows[j].date = rows[i].date /\ rows[j].team = rows[i].team
    IN  SelectIdx(pos, {n \in Idx(pos) : hit(n)}, 1)

OppMatches(rows, i) ==
    LET pos == [j \in Idx(rows) |-> j]
        hit(j) == rows[j].date = rows[i].date /\ rows[j].team = rows[i].opponent
    IN  SelectIdx(pos, {n \in Idx(pos) : hit(n)}, 1)

(* variant: how="inner", a row without a match is dropped *)
JoinedInner(rows, i) ==
    LET m == OppMatches(rows, i)
    IN  Eager([k \in Idx(m) |->
                 With(rows[i], "opp_avg_pts", rows[m[k]].team_avg_pts)])

Joined(rows, i) ==
    LET m == OppMatches(rows, i)
    IN  IF m = <<>> THEN <<With(rows[i], "opp_avg_pts", NaN)>>
        ELSE Eager([k \in Idx(m) |->
                 With(rows[i], "opp_avg_pts", rows[m[k]].team_avg_pts)])

RECURSIVE MergeOpp(_, _)
MergeOpp(rows, i) ==
    IF i > Len(rows) THEN <<>> ELSE Joined(rows, i) \o MergeOpp(rows, i + 1)

\* add_basic_features
AddBasicFeatures(df) ==
    IF ~ df.ok THEN df
    ELSE IF ~ (FeatureNeeds \subseteq df.cols) THEN Err("KeyError")
    ELSE
    LET sorted == SortTeamDate(df.rows)
        xg(r, c) == IF c \in df.cols THEN FillNa(r[c]) ELSE FromInt(0)
        perRow(r) ==
            LET xf == xg(r, "xG_for")
                xa == xg(r, "xG_against")
                y == FillNaInt(r.yellow)
                rd == FillNaInt(r.red)
            IN  [xG_for |-> xf, xG_against |-> xa, xGD |-> RSub(xf, xa),
                 clean_sheet |-> IF r.goals_against = 0 THEN 1 ELSE 0,
                 yellow |-> y, red |-> rd, card_points |-> y + 2 * rd] @@ r
        base == Eager([i \in Idx(sorted) |-> perRow(sorted[i])])
        form3 == GroupTransform(base, "pts", "rolling")
        avg == GroupTransform(base, "pts", "expanding")
        withAvg == Eager([i \in Idx(base) |->
                       With(With(base[i], "form3", form3[i]),
                            "team_avg_pts", avg[i])])
        merged == MergeOpp(withAvg, 1)
        league_mean ==
            RMean(Eager([i \in Idx(merged) |-> merged[i].team_avg_pts]))
        filled == Eager([i \in Idx(merged) |->
                      IF IsNaN(merged[i].opp_avg_pts)
                      THEN With(merged[i], "opp_avg_pts", league_mean)
                      ELSE merged[i]])
    IN  DF(df.cols \cup FeatureCols, filled)

(***************************************************************************)
(* Inputs: match tables.                                                   *)
(***************************************************************************)
Fixtures == {<<"Arsenal", "Chelsea">>, <<"Chelsea", "Arsenal">>,
             <<"Arsenal", "Leicester City">>}
FTRs == {"H", "D", "A"}
Counts == 0..MaxCount

Match(d, f, ftr, hg, ag, hy, ay, hr, ar) ==
    [Date |-> d, Season |-> 2025, HomeTeam |-> f[1], AwayTeam |-> f[2],
     FTHG |-> hg, FTAG |-> ag, FTR |-> ftr, HY |-> hy, AY |-> ay,
     HR |-> hr, AR |-> ar]

\* matches whose result and goals vary independently (one date)
WideMatches ==
    {Match(1, f, ftr, hg, ag, 2, 1, 0, 1) :
        f \in {<<"Arsenal", "Chelsea">>, <<"Chelsea", "Leicester City">>},
        ftr \in FTRs, hg \in Counts, ag \in Counts}

SeqsUpTo(S, n) == UNION {[1..k -> S] : k \in 1..n}

(***************************************************************************)
(* Specification of the panel builder alone.                               *)
(***************************************************************************)

FilesInit ==
    /\ matchesFile = Absent
    /\ xgFile = Absent
    /\ featuresFile = Absent
    /\ pricingFile = Absent

FilesUnchanged == UNCHANGED <<matchesFile, xgFile, featuresFile, pricingFile>>

InitPanel ==
    /\ op = "input"
    /\ \E rows \in SeqsUpTo(WideMatches, MaxPanelMatches) :
           arg = DF(MatchCols, rows)
    /\ ret = None
    /\ FilesInit

CallExpandHomeAway ==
    /\ op = "input"
    /\ op' = "_expand_home_away"
    /\ ret' = ExpandHomeAway(arg)
    /\ UNCHANGED arg
    /\ FilesUnchanged

NextPanel == CallExpandHomeAway

SpecPanel == InitPanel /\ [][NextPanel]_vars

\* C1: every match record yields exactly two rows, the i-th home row (venue
\* "h") and the i-th away row (venue "a"), with team/opponent and
\* goals_for/goals_against swapped between them; pts is 3 for W, 1 for D and
\* 0 for L, and the pair's points are 3 and 0 or 1 and 1, nothing else.
C1_TwoRowsPerMatch ==
    op = "_expand_home_away" =>
        /\ ret.ok
        /\ Len(ret.rows) = 2 * Len(arg.rows)
        /\ \A i \in Idx(arg.rows) :
              LET m == arg.rows[i]
                  h == ret.rows[i]
                  a == ret.rows[Len(arg.rows) + i]
              IN  /\ h.home_away = "h" /\ a.home_away = "a"
                  /\ h.date = m.Date /\ a.date = m.Date
                  /\ h.team = m.HomeTeam /\ h.opponent = m.AwayTeam
                  /\ a.team = h.opponent /\ a.opponent = h.team
                  /\ h.goals_for = m.FTHG /\ h.goals_against = m.FTAG
                  /\ a.goals_for = h.goals_against
                  /\ a.goals_against = h.goals_for
                  /\ \A r \in {h, a} :
                        /\ r.result \in {"W", "D", "L"}
                        /\ r.pts = (CASE r.result = "W" -> 3
                                      [] r.result = "D" -> 1
                                      [] r.result = "L" -> 0)
                  /\ {h.pts, a.pts} \in {{3, 0}, {1}}
                  /\ (h.result = "D") = (a.result = "D")

\* a two-match table with one draw and one away win has been expanded
C1_Witness ==
    /\ op = "_expand_home_away"
    /\ Len(arg.rows) = 2
    /\ arg.rows[1].FTR = "D" /\ arg.rows[2].FTR = "A"
    /\ arg.rows[2].FTHG # arg.rows[2].FTAG
    /\ ret.ok /\ Len(ret.rows) = 4
    /\ ret.rows[4].pts = 3

\* base[base["team"].isin(CURRENT_TEAMS)]
FilterCurrent(df) ==
    IF ~ df.ok THEN df
    ELSE IF "team" \notin df.cols THEN Err("KeyError")
    ELSE LET keep(i) == df.rows[i].team \in CURRENT_TEAMS
         IN  DF(df.cols,
                SelectIdx(df.rows, {n \in Idx(df.rows) : keep(n)}, 1))

(***************************************************************************)
(* pricing.py                                                              *)
(***************************************************************************)
RegressionCols == {"xGD", "clean_sheet", "card_points", "opp_avg_pts", "pts"}
IntCols == {"pts", "clean_sheet", "card_points"}
MinRows == 200
P0 == 100
PriceFloor == 1

Shrink == Q(15, 100)
Coefs(a, b, g, d, e, z) ==
    [alpha |-> a, beta |-> b, gamma |-> g, delta |-> d, epsilon |-> e,
     zeta |-> z]

FallbackCoefs ==
    Coefs(RMul(Q(3, 10), Shrink), RMul(Q(5, 10), Shrink),
          RMul(Q(3, 10), Shrink), RMul(Q(1, 10), Shrink),
          RMul(Q(5, 100), Shrink), RMul(Q(2, 10), Shrink))

\* abs(delta_raw), abs(epsilon_raw)
(* variant: the raw coefficient is used as it is *)
RAbsNone(x) == x

RAbs(x) == <<Abs(x[1]), x[2]>>

\* a cell as a float: an integer cell widens, a missing one is NaN
AsFloat(c, v) == IF c \in IntCols THEN (IF v = NA THEN NaN ELSE FromInt(v)) ELSE v

\* len(reg_df): reg_df = df[feature_cols + ["pts"]].fillna(0.0) keeps every row
(* variant: dropna() instead of fillna(0.0) *)
RegressionRowsDropNa(rows) ==
    LET complete(r) == \A c \in RegressionCols : ~ IsNaN(AsFloat(c, r[c]))
    IN  Len(SelectSeq(rows, complete))

RegressionRows(rows) ==
    Len([i \in Idx(rows) |->
            [c \in RegressionCols |-> FillNa(AsFloat(c, rows[i][c]))]])

\* the branch on the row count
(* variant: the fallback also taken at exactly 200 rows *)
TooFewRowsInclusive(n) == n <= MinRows

TooFewRows(n) == n < MinRows

\* fit_pricing_coefficients; theta is what np.linalg.solve returns for the
\* ridge system, (zeta, beta, gamma, delta_raw, epsilon_raw), or an error
FitPricingCoefficients(df, theta) ==
    IF ~ df.ok THEN df
    ELSE IF ~ (RegressionCols \subseteq df.cols) THEN Err("KeyError")
    ELSE IF TooFewRows(RegressionRows(df.rows))
         THEN [ok |-> TRUE, solved |-> FALSE, coefs |-> FallbackCoefs]
    ELSE [ok |-> TRUE, solved |-> TRUE,
          coefs |-> Coefs(RMul(Q(3, 10), Shrink),
                          RMul(theta.beta, Shrink),
                          RMul(theta.gamma, Shrink),
                          RMul(RAbs(theta.delta_raw), Shrink),
                          RMul(RAbs(theta.epsilon_raw), Shrink),
                          RMul(theta.zeta, Shrink))]

\* df["price"].clip(lower=1.0)
(* variant: no floor *)
ClipNone(x) == x

Clip(x) == IF RLess(x, FromInt(PriceFloor)) THEN FromInt(PriceFloor) ELSE x

\* the cumulative price column
(* variant: one running sum over the whole frame *)
PriceColumnUngrouped(rows) ==
    LET x == Eager([i \in Idx(rows) |-> rows[i].delta_P])
        c == CumSum(x)
    IN  Eager([i \in Idx(rows) |-> RAdd(c[i], FromInt(P0))])

PriceColumn(rows) ==
    LET cum == GroupTransform(rows, "delta_P", "cumsum")
    IN  Eager([i \in Idx(rows) |-> RAdd(cum[i], FromInt(P0))])

\* compute_stock_prices
ComputeStockPrices(df, coef) ==
    IF ~ df.ok THEN df
    ELSE IF ~ ({"team", "date"} \subseteq df.cols) THEN Err("KeyError")
    ELSE
    LET sorted == SortTeamDate(df.rows)
        cell(r, c) == IF c \in df.cols THEN FillNa(AsFloat(c, r[c]))
                      ELSE FromInt(0)
        \* a column of integers without a missing cell stays one
        isInt(c) == /\ c \in IntCols \cap df.cols
                    /\ \A i \in Idx(sorted) : sorted[i][c] # NA
        perRow(r) ==
            LET f == [c \in RegressionCols |-> cell(r, c)]
                kept == [c \in RegressionCols |->
                            IF isInt(c) THEN r[c] ELSE f[c]]
                d == RAdd(RSub(RSub(RAdd(RAdd(RMul(coef.alpha, f.pts),
                                              RMul(coef.beta, f.xGD)),
                                         RMul(coef.gamma, f.clean_sheet)),
                                    RMul(coef.delta, f.card_points)),
                               RMul(coef.epsilon, f.opp_avg_pts)),
                          coef.zeta)
            IN  ("delta_P" :> FillNa(d)) @@ kept @@ r
        withDelta == Eager([i \in Idx(sorted) |-> perRow(sorted[i])])
        price == PriceColumn(withDelta)
    IN  DF(df.cols \cup RegressionCols \cup {"delta_P", "price"},
           Eager([i \in Idx(sorted) |->
                     With(withDelta[i], "price", Clip(price[i]))]))

(***************************************************************************)
(* Specification of the feature engine alone.  Panels come from expanded   *)
(* match tables (in expansion order, so unsorted and with teams            *)
(* interleaved), whole or filtered to the current teams; match dates       *)
(* ascend, descend or repeat in pairs (a team with two rows on one date).  *)
(***************************************************************************)
DatePatterns == {"asc", "desc", "pairs"}
DateAt(pattern, i, n) ==
    CASE pattern = "asc" -> i
      [] pattern = "desc" -> n + 1 - i
      [] pattern = "pairs" -> (i + 1) \div 2

\* goals agreeing with the full-time result
ResultMatch(d, f, ftr) ==
    CASE ftr = "H" -> Match(d, f, ftr, 1, 0, 2, 1, 0, 1)
      [] ftr = "D" -> Match(d, f, ftr, 0, 0, 2, 1, 0, 1)
      [] ftr = "A" -> Match(d, f, ftr, 0, 1, 2, 1, 0, 1)

\* Arsenal away to Chelsea or at home to Leicester City (not a current team)
ResultFixtures == {<<"Chelsea", "Arsenal">>, <<"Arsenal", "Leicester City">>}

ResultTable(n, pat, c) ==
    [i \in 1..n |-> ResultMatch(DateAt(pat, i, n), c[i][1], c[i][2])]

ResultPanel(n, pat, c, filtered) ==
    LET full == ExpandHomeAway(DF(MatchCols, ResultTable(n, pat, c)))
    IN  IF filtered THEN FilterCurrent(full) ELSE full

\* one-match panels with optional cells and columns varied
XgValues == {NaN, FromInt(0), Q(3, 2)}
StatPanels(matches) ==
    LET one == {ExpandHomeAway(DF(MatchCols, <<m>>)) : m \in matches}
               \cup {ExpandHomeAway(DF(MatchCols,
                        <<Match(1, <<"Arsenal", "Chelsea">>, "H", 1, 0,
                                NA, 1, NA, 0)>>))}
        withXg(p, xf, xa) ==
            DF(p.cols \cup {"xG_for", "xG_against"},
               [i \in Idx(p.rows) |->
                   With(With(p.rows[i], "xG_for", IF i = 1 THEN xf ELSE xa),
                        "xG_against", IF i = 1 THEN xa ELSE xf)])
        drop(p, c) ==
            DF(p.cols \ {c}, [i \in Idx(p.rows) |-> Without(p.rows[i], c)])
    IN  {withXg(p, xf, xa) : p \in one, xf \in XgValues, xa \in XgValues}
        \cup {drop(withXg(p, Q(3, 2), FromInt(1)), c) :
                 p \in one, c \in {"xG_for", "xG_against"}}
        \cup {drop(p, c) : p \in one,
                           c \in {"goals_against", "pts", "yellow", "opponent"}}
        \cup one

InitFeatures ==
    /\ op = "input"
    /\ \/ \E n \in 1..MaxMatches, pat \in DatePatterns, filtered \in BOOLEAN :
            \E c \in [1..n -> ResultFixtures \X FTRs] :
                arg = ResultPanel(n, pat, c, filtered)
       \/ arg \in StatPanels(WideMatches)
    /\ ret = None
    /\ FilesInit

CallAddBasicFeatures ==
    /\ op = "input"
    /\ op' = "add_basic_features"
    /\ ret' = AddBasicFeatures(arg)
    /\ UNCHANGED arg
    /\ FilesUnchanged

NextFeatures == CallAddBasicFeatures

SpecFeatures == InitFeatures /\ [][NextFeatures]_vars

(***************************************************************************)
(* Properties of the feature engine.                                       *)
(***************************************************************************)
FeaturesDone == op = "add_basic_features" /\ ret.ok

\* team t's rows of a panel in date order (rows of one date in panel order)
TeamRowsByDate(rows, t) ==
    LET isMine(r) == r.team = t
        mine == SelectSeq(rows, isMine)
        before(i) == Cardinality({j \in Idx(mine) :
                        \/ mine[j].date < mine[i].date
                        \/ mine[j].date = mine[i].date /\ j < i})
    IN  [k \in Idx(mine) |-> mine[CHOOSE i \in Idx(mine) : before(i) = k - 1]]

\* an output row carries the cells of this panel row (those never filled)
SameMatch(r, s) ==
    \A c \in DOMAIN s \ {"yellow", "red", "xG_for", "xG_against"} : r[c] = s[c]

\* the rational x is total / count
IsRatio(x, total, count) == ~ IsNaN(x) /\ x[1] * count = total * x[2]

PtsSum(e, from, to) == ISum([k \in 1..(to - from + 1) |-> e[from + k - 1].pts])

UniqueTeamDate(rows) ==
    \A i, j \in Idx(rows) :
        rows[i].team = rows[j].team /\ rows[i].date = rows[j].date => i = j

\* every panel row at position k of its team's date order has an output row,
\* and every output row is such a row, with value(e, k) in column c
PerTeamColumn(c, total(_, _), count(_)) ==
    \A t \in Teams :
        LET e == TeamRowsByDate(arg.rows, t)
            good(r, k) == /\ SameMatch(r, e[k])
                          /\ IsRatio(r[c], total(e, k), count(k))
        IN  /\ \A k \in Idx(e) : \E r \in Range(ret.rows) : good(r, k)
            /\ \A r \in Range(ret.rows) :
                  r.team = t => \E k \in Idx(e) : good(r, k)

\* C4: an output row whose opponent has a panel row on the same date carries
\* that row's team_avg_pts as opp_avg_pts (the opponent's, not its own);
\* any other output row carries the league mean, the mean of team_avg_pts
\* over all rows of the joined table.
C4_OpponentStrength ==
    FeaturesDone =>
        \A r \in Range(ret.rows) :
            LET opp == {s \in Range(ret.rows) :
                           s.team = r.opponent /\ s.date = r.date}
                inPanel == \E s \in Range(arg.rows) :
                               s.team = r.opponent /\ s.date = r.date
                all == [i \in Idx(ret.rows) |-> ret.rows[i].team_avg_pts]
            IN  /\ inPanel <=> opp # {}
                /\ inPanel => \E s \in opp : r.opp_avg_pts = s.team_avg_pts
                /\ inPanel /\ UniqueTeamDate(arg.rows) =>
                       \A s \in opp : r.opp_avg_pts = s.team_avg_pts
                /\ ~ inPanel =>
                       r.opp_avg_pts = RDivInt(RSum(all), Len(ret.rows))

\* both cases at once: a filtered panel in which Arsenal meets Chelsea (in
\* the panel, with a different average) and Leicester City (filtered out)
C4_Witness ==
    /\ FeaturesDone
    /\ \E r \in Range(ret.rows) :
          /\ r.opponent = "Chelsea"
          /\ r.opp_avg_pts # r.team_avg_pts
          /\ \E s \in Range(ret.rows) : s.team = "Chelsea" /\ s.date = r.date
    /\ \E r \in Range(ret.rows) :
          /\ r.opponent = "Leicester City"
          /\ \A s \in Range(ret.rows) : s.team # "Leicester City"
          /\ r.opp_avg_pts # r.team_avg_pts

\* C5: at position i of a team's rows in date order, form3 is the mean of
\* that team's points at positions max(0, i-2)..i; other teams' rows never
\* enter, and constant points p give form3 = p.
C5_Form3 ==
    FeaturesDone =>
        LET from(k) == IF k > 3 THEN k - 2 ELSE 1
            total(e, k) == PtsSum(e, from(k), k)
            count(k) == k - from(k) + 1
        IN  /\ PerTeamColumn("form3", total, count)
            /\ \A t \in Teams, p \in {0, 1, 3} :
                  (\A s \in Range(arg.rows) : s.team = t => s.pts = p) =>
                  (\A r \in Range(ret.rows) : r.team = t => r.form3 = FromInt(p))

\* a team's fourth match, whose window has left the first one behind, in a
\* panel given in descending date order with another team's rows in between
C5_Witness ==
    /\ FeaturesDone
    /\ UniqueTeamDate(arg.rows)
    /\ LET e == TeamRowsByDate(arg.rows, "Arsenal")
       IN  /\ Len(e) = 4
           /\ e[1].pts = 3 /\ e[2].pts = 0 /\ e[3].pts = 1 /\ e[4].pts = 1
           /\ \E r \in Range(ret.rows) :
                 SameMatch(r, e[4]) /\ r.form3 = Q(2, 3)
    /\ \E i, j, k \in Idx(arg.rows) :
          /\ i < j /\ j < k
          /\ arg.rows[i].team = "Arsenal" /\ arg.rows[k].team = "Arsenal"
          /\ arg.rows[j].team = "Chelsea"
          /\ arg.rows[i].date > arg.rows[k].date

\* C6: at position i of a team's rows in date order, team_avg_pts is the
\* mean of that team's points at positions 0..i, whatever the order of the
\* input rows and whatever other teams' rows lie between them.
C6_TeamAvgPts ==
    FeaturesDone =>
        LET total(e, k) == PtsSum(e, 1, k)
            count(k) == k
        IN  PerTeamColumn("team_avg_pts", total, count)

\* points 3, 0, 3 in date order, given in descending date order, have the
\* averages 3, 3/2, 2
C6_Witness ==
    /\ FeaturesDone
    /\ UniqueTeamDate(arg.rows)
    /\ LET e == TeamRowsByDate(arg.rows, "Arsenal")
       IN  /\ Len(e) = 3
           /\ e[1].pts = 3 /\ e[2].pts = 0 /\ e[3].pts = 3
           /\ \E i, j \in Idx(arg.rows) :
                 i < j /\ arg.rows[i] = e[3] /\ arg.rows[j] = e[1]
           /\ \A k \in 1..3 : \E r \in Range(ret.rows) :
                 /\ SameMatch(r, e[k])
                 /\ r.team_avg_pts = <<FromInt(3), Q(3, 2), FromInt(2)>>[k]
    /\ \E r \in Range(ret.rows) : r.team = "Chelsea"

\* C7 as stated: the output has as many rows as the input, for every panel.
C7_SameCardinality ==
    FeaturesDone => Len(ret.rows) = Len(arg.rows)

\* C7 as amended: the output has as many rows as the input whenever no two
\* rows of the panel share (date, team).
C7_SameCardinalityUnique ==
    FeaturesDone /\ UniqueTeamDate(arg.rows) => Len(ret.rows) = Len(arg.rows)

\* a duplicate-free panel with a joined row and a row without a match
C7_Witness ==
    /\ FeaturesDone
    /\ UniqueTeamDate(arg.rows)
    /\ Len(arg.rows) >= 4
    /\ Len(ret.rows) = Len(arg.rows)
    /\ \E r, s \in Range(arg.rows) : s.team = r.opponent /\ s.date = r.date
    /\ \E r \in Range(arg.rows) :
          \A s \in Range(arg.rows) : ~ (s.team = r.opponent /\ s.date = r.date)


(***************************************************************************)
(* Specification of the price integrator alone: short feature tables of    *)
(* two teams, dates ascending or descending, under the fallback            *)
(* coefficients or coefficients that make a win cost 110 and any other     *)
(* result earn 40.                                                         *)
(***************************************************************************)
CrashCoefs ==
    Coefs(FromInt(-50), FromInt(0), FromInt(0), FromInt(0), FromInt(0),
          FromInt(40))

PriceRow(d, c) ==
    [team |-> c[1], date |-> d, pts |-> c[2], xGD |-> c[3],
     clean_sheet |-> 1, card_points |-> 2, opp_avg_pts |-> Q(3, 2)]

PriceCells == {"Arsenal", "Chelsea"} \X {0, 3} \X {NaN, Q(1, 2)}

InitPricing ==
    /\ op = "input"
    /\ \E n \in 1..MaxRows, pat \in {"asc", "desc"},
          coef \in {FallbackCoefs, CrashCoefs} :
          \E c \in [1..n -> PriceCells] :
              arg = [df |-> DF({"team", "date"} \cup RegressionCols,
                               [i \in 1..n |-> PriceRow(DateAt(pat, i, n), c[i])]),
                     coef |-> coef]
    /\ ret = None
    /\ FilesInit

CallComputeStockPrices ==
    /\ op = "input"
    /\ op' = "compute_stock_prices"
    /\ ret' = ComputeStockPrices(arg.df, arg.coef)
    /\ UNCHANGED arg
    /\ FilesUnchanged

NextPricing == CallComputeStockPrices

SpecPricing == InitPricing /\ [][NextPricing]_vars

\* what the formula of the docstring gives for one feature row
DeltaP(r, coef) ==
    LET f(c) == FillNa(AsFloat(c, r[c]))
        plus == RAdd(RAdd(RMul(coef.alpha, f("pts")), RMul(coef.beta, f("xGD"))),
                     RAdd(RMul(coef.gamma, f("clean_sheet")), coef.zeta))
        minus == RAdd(RMul(coef.delta, f("card_points")),
                      RMul(coef.epsilon, f("opp_avg_pts")))
    IN  RSub(plus, minus)

\* 100 + the sum of the first k price changes of the date-ordered rows e
RunningPrice(e, coef, k) ==
    RAdd(FromInt(100), RSum([j \in 1..k |-> DeltaP(e[j], coef)]))

\* C2: at every position i of a team's date-ordered rows the price is
\* max(1.0, 100.0 + the sum of that team's delta_P[0..i]), delta_P being
\* alpha*pts + beta*xGD + gamma*clean_sheet - delta*card_points
\* - epsilon*opp_avg_pts + zeta: no other team's row enters the sum, no
\* price is below 1.0, and a clipped price does not hold later prices down.
C2_PricePerTeam ==
    op = "compute_stock_prices" =>
        /\ ret.ok
        /\ Len(ret.rows) = Len(arg.df.rows)
        /\ \A t \in Teams :
              LET e == TeamRowsByDate(arg.df.rows, t)
                  isMine(r) == r.team = t
                  o == SelectSeq(ret.rows, isMine)
              IN  /\ Len(o) = Len(e)
                  /\ \A k \in Idx(e) :
                        LET run == RunningPrice(e, arg.coef, k)
                        IN  /\ o[k].date = e[k].date
                            /\ o[k].delta_P = DeltaP(e[k], arg.coef)
                            /\ ~ RLess(o[k].price, FromInt(1))
                            /\ o[k].price =
                                  (IF RLess(FromInt(1), run) THEN run
                                   ELSE FromInt(1))

\* Arsenal, given latest match first, drops to the floor after a win and
\* is back at 100 - 110 + 40 = 30 one match later, while Chelsea's rows lie
\* in the same table
C2_Witness ==
    /\ op = "compute_stock_prices"
    /\ arg.coef = CrashCoefs
    /\ Len(arg.df.rows) = 3
    /\ arg.df.rows[1].date > arg.df.rows[3].date
    /\ \E i, j, k \in Idx(ret.rows) :
          /\ i < j
          /\ ret.rows[i].team = "Arsenal" /\ ret.rows[j].team = "Arsenal"
          /\ ret.rows[k].team = "Chelsea"
          /\ ret.rows[i].price = FromInt(1)
          /\ ret.rows[j].price = FromInt(30)


(***************************************************************************)
(* Specification of the coefficient fitter alone: feature tables of        *)
(* MinRows - Margin .. MinRows + Margin rows, the first few of them with   *)
(* missing cells.  The ridge system is solved outside the model; its       *)
(* solution ranges over Thetas.                                            *)
(***************************************************************************)
ThetaValues == {Q(-1, 2), Q(3, 4)}
Thetas == [zeta : ThetaValues, beta : ThetaValues, gamma : {Q(1, 4)},
           delta_raw : ThetaValues, epsilon_raw : ThetaValues]

\* the solutions np.linalg.solve may return for df (it is not called on the
\* fallback path)
SolveOutcomes(df) ==
    IF df.ok /\ RegressionCols \subseteq df.cols
             /\ ~ TooFewRows(RegressionRows(df.rows))
    THEN Thetas ELSE {None}

FitRow(i, missing, pts) ==
    [team |-> "Arsenal", date |-> i, pts |-> pts,
     xGD |-> IF i <= missing THEN NaN ELSE Q(1, 2),
     clean_sheet |-> 1,
     card_points |-> IF i <= missing THEN NA ELSE 2,
     opp_avg_pts |-> Q(3, 2)]

InitFit ==
    /\ op = "input"
    /\ \E n \in (MinRows - Margin)..(MinRows + Margin),
          missing \in 0..(Margin + 1), pts \in {0, 1, 3} :
          arg = DF({"team", "date"} \cup RegressionCols,
                   [i \in 1..n |-> FitRow(i, missing, pts)])
    /\ ret = None
    /\ FilesInit

CallFitPricingCoefficients ==
    /\ op = "input"
    /\ op' = "fit_pricing_coefficients"
    /\ \E theta \in SolveOutcomes(arg) :
          ret' = FitPricingCoefficients(arg, theta)
    /\ UNCHANGED arg
    /\ FilesUnchanged

NextFit == CallFitPricingCoefficients

SpecFit == InitFit /\ [][NextFit]_vars

\* C3: the fixed fallback coefficients (0.3, 0.5, 0.3, 0.1, 0.05, 0.2, each
\* times 0.15) are returned, with no regression performed, exactly when the
\* table has fewer than 200 rows; rows with missing cells count, and a table
\* of exactly 200 rows is regressed.
C3_FallbackBelow200 ==
    op = "fit_pricing_coefficients" =>
        LET fixed == Coefs(Q(45, 1000), Q(75, 1000), Q(45, 1000),
                           Q(15, 1000), Q(75, 10000), Q(30, 1000))
        IN  /\ ret.ok
            /\ (~ ret.solved /\ ret.coefs = fixed) <=> Len(arg.rows) < 200
            /\ Len(arg.rows) >= 200 => ret.solved

\* a table of exactly 200 rows, some with missing cells, has been regressed
C3_Witness ==
    /\ op = "fit_pricing_coefficients"
    /\ Len(arg.rows) = 200
    /\ IsNaN(arg.rows[1].xGD) /\ arg.rows[2].card_points = NA
    /\ ret.ok /\ ret.solved


(***************************************************************************)
(* Specification of the fitter followed by the price formula, as in        *)
(* build_pricing_dataset: the coefficients fit_pricing_coefficients        *)
(* returns are handed to compute_stock_prices.  The priced table has two   *)
(* rows, one per team, that may differ in pts, card_points and             *)
(* opp_avg_pts.                                                            *)
(***************************************************************************)
PenaltyCells == {0, 3} \X {NA, 1, 3} \X {NaN, Q(1, 2), Q(3, 2)}

PenaltyRow(t, c) ==
    [team |-> t, date |-> 1, pts |-> c[1], xGD |-> Q(1, 2), clean_sheet |-> 1,
     card_points |-> c[2], opp_avg_pts |-> c[3]]

PenaltyTables ==
    {DF({"team", "date"} \cup RegressionCols,
        <<PenaltyRow("Chelsea", a), PenaltyRow("Arsenal", b)>>) :
        a \in PenaltyCells, b \in PenaltyCells}

\* priced_all = compute_stock_prices(df, coefs), coefs the fitter's result
CallComputeWithFitted ==
    /\ op = "fit_pricing_coefficients"
    /\ ret.ok
    /\ op' = "compute_stock_prices"
    /\ \E df \in PenaltyTables :
          /\ arg' = [df |-> df, coef |-> ret.coefs]
          /\ ret' = ComputeStockPrices(df, ret.coefs)
    /\ FilesUnchanged

NextCoefs == CallFitPricingCoefficients \/ CallComputeWithFitted

SpecCoefs == InitFit /\ [][NextCoefs]_vars

\* x >= 0 for a float x (false of NaN)
NonNegative(x) == ~ IsNaN(x) /\ x[1] >= 0

\* the cell of column c that compute_stock_prices used for the priced row r
UsedCell(r, c) ==
    LET given == CHOOSE x \in Range(arg.df.rows) :
                     x.team = r.team /\ x.date = r.date
    IN  FillNa(AsFloat(c, given[c]))

\* the priced rows a and b were given the same features apart from column c,
\* and a the smaller value in c
LargerOnlyIn(c, a, b) ==
    /\ \A k \in RegressionCols \ {c} : UsedCell(a, k) = UsedCell(b, k)
    /\ RLess(UsedCell(a, c), UsedCell(b, c))

\* C11: on the fallback path and on the regression path alike the returned
\* delta and epsilon are >= 0 and the returned alpha is 0.3 x 0.15 = 9/200;
\* priced with the returned coefficients, a row with a larger card_points
\* or a larger opp_avg_pts and otherwise equal features never has the
\* larger delta_P.
C11_PenaltySigns ==
    /\ op = "fit_pricing_coefficients" =>
          /\ ret.ok
          /\ NonNegative(ret.coefs.delta)
          /\ NonNegative(ret.coefs.epsilon)
          /\ ret.coefs.alpha = Q(9, 200)
    /\ op = "compute_stock_prices" =>
          /\ ret.ok
          /\ \A a, b \in Range(ret.rows) :
                \A c \in {"card_points", "opp_avg_pts"} :
                    LargerOnlyIn(c, a, b) => ~ RLess(a.delta_P, b.delta_P)

\* a regression whose raw card and opponent coefficients were both negative
\* (-1/2) has been used to price two rows that differ in card_points only,
\* and the row with more card points got the strictly smaller delta_P
C11_Witness ==
    /\ op = "compute_stock_prices"
    /\ arg.coef.delta = RMul(Q(1, 2), Shrink)
    /\ arg.coef.epsilon = RMul(Q(1, 2), Shrink)
    /\ \E a, b \in Range(ret.rows) :
          /\ LargerOnlyIn("card_points", a, b)
          /\ RLess(b.delta_P, a.delta_P)


(***************************************************************************)
(* The pipeline entry points and the files they share.                     *)
(***************************************************************************)
\* features = add_basic_features(base), base the loaded panel filtered to
\* the current teams
FreshFeatures(matches, xgfile) ==
    AddBasicFeatures(FilterCurrent(LoadTeamMatchPanel(matches, xgfile)))

\* the features file after build_feature_dataset
(* variant: a header-only file is left behind when the run fails *)
PersistFeaturesOnError(features, file) ==
    IF file.exists THEN file
    ELSE IF features.ok THEN ToCsv(features)
    ELSE ToCsv(DF({}, <<>>))

(* variant: the file is written on every run *)
PersistFeaturesOverwrite(features, file) ==
    IF features.ok THEN ToCsv(features) ELSE file

PersistFeatures(features, file) ==
    IF features.ok /\ ~ file.exists THEN ToCsv(features) ELSE file

\* the steps of build_pricing_dataset between reading the features file and
\* saving
PricedFrom(df, theta) ==
    LET fit == FitPricingCoefficients(df, theta)
    IN  IF ~ fit.ok THEN fit
        ELSE FilterCurrent(ComputeStockPrices(df, fit.coefs))

\* the pricing file after build_pricing_dataset
(* variant: the pricing file is created only when absent *)
PersistPricingIfAbsent(priced, save_to_csv, file) ==
    IF save_to_csv /\ priced.ok /\ ~ file.exists THEN ToCsv(priced) ELSE file

PersistPricing(priced, save_to_csv, file) ==
    IF save_to_csv /\ priced.ok THEN ToCsv(priced) ELSE file

BuildFeatureDataset ==
    LET features == FreshFeatures(matchesFile, xgFile)
    IN  /\ op' = "build_feature_dataset"
        /\ ret' = features
        /\ featuresFile' = PersistFeatures(features, featuresFile)
        /\ UNCHANGED <<arg, matchesFile, xgFile, pricingFile>>

BuildPricingDataset ==
    \E save_to_csv \in BOOLEAN :
        LET df == ReadCsv(featuresFile)
        IN  \E theta \in SolveOutcomes(df) :
                LET priced == PricedFrom(df, theta)
                IN  /\ op' = "build_pricing_dataset"
                    /\ arg' = [save_to_csv |-> save_to_csv]
                    /\ ret' = priced
                    /\ pricingFile' =
                          PersistPricing(priced, save_to_csv, pricingFile)
                    /\ UNCHANGED <<matchesFile, xgFile, featuresFile>>

(***************************************************************************)
(* The data files a run may find.                                          *)
(***************************************************************************)
FileLines ==
    {ResultMatch(1, <<"Arsenal", "Chelsea">>, "H"),
     ResultMatch(1, <<"Arsenal", "Chelsea">>, "A"),
     ResultMatch(2, <<"Arsenal", "Leicester City">>, "D")}
BadDateLine == ResultMatch(NA, <<"Chelsea", "Arsenal">>, "H")

MatchTables ==
    UNION {{t \in [1..k -> FileLines \cup {BadDateLine}] : t[1] \in FileLines} :
           k \in 1..MaxFileMatches}

\* a table without its Season or FTAG column, with a padded FTR header, or
\* with a line whose date does not parse
OddMatchFiles ==
    LET m == ResultMatch(1, <<"Arsenal", "Chelsea">>, "D")
        drop(c) == DF(MatchCols \ {c}, <<Without(m, c)>>)
        padded == DF((MatchCols \ {"FTR"}) \cup {"FTR "},
                     <<With(Without(m, "FTR"), "FTR ", m.FTR)>>)
    IN  {ToCsv(drop("Season")), ToCsv(drop("FTAG")), ToCsv(padded),
         ToCsv(DF(MatchCols, <<m, BadDateLine>>))}

MatchFiles == {ToCsv(DF(MatchCols, t)) : t \in MatchTables} \cup OddMatchFiles

XgLine(league, d, xg) ==
    [league |-> league, season |-> 2025, club_name |-> "Arsenal",
     home_away |-> "h", xG |-> xg, xGA |-> Q(1, 2), date |-> d]
XgCols == {"league", "season", "club_name", "home_away", "xG", "xGA", "date"}
XgFiles ==
    {Absent,
     ToCsv(DF(XgCols, <<XgLine("EPL", 1, Q(3, 2)), XgLine("La_liga", 2, Q(5, 2)),
                        XgLine("EPL", NA, Q(7, 2))>>)),
     ToCsv(DF(XgCols \ {"date"}, <<Without(XgLine("EPL", 1, Q(3, 2)), "date")>>))}

(***************************************************************************)
(* Specification of the pipeline: the data files change between runs, and  *)
(* the two entry points run in any order.                                  *)
(***************************************************************************)
Init ==
    /\ op = "start"
    /\ arg = None
    /\ ret = None
    /\ matchesFile \in MatchFiles
    /\ xgFile \in XgFiles
    /\ featuresFile = Absent
    /\ pricingFile = Absent

\* new results arrive: MATCHES_FILE is replaced
ReplaceMatches ==
    /\ op' = "replace_inputs"
    /\ ret' = None
    /\ matchesFile' \in MatchFiles
    /\ UNCHANGED <<arg, xgFile, featuresFile, pricingFile>>

\* XG_FILE is replaced, added or removed
ReplaceXg ==
    /\ op' = "replace_inputs"
    /\ ret' = None
    /\ xgFile' \in XgFiles
    /\ UNCHANGED <<arg, matchesFile, featuresFile, pricingFile>>

\* the features file is removed by hand (the one way to have it rebuilt)
RemoveFeaturesFile ==
    /\ featuresFile.exists
    /\ op' = "remove_features_file"
    /\ ret' = None
    /\ featuresFile' = Absent
    /\ UNCHANGED <<arg, matchesFile, xgFile, pricingFile>>

Next ==
    \/ ReplaceMatches
    \/ ReplaceXg
    \/ RemoveFeaturesFile
    \/ BuildFeatureDataset
    \/ BuildPricingDataset

Spec == Init /\ [][Next]_vars


(***************************************************************************)
(* Specification of the schema checks: add_basic_features called on a      *)
(* one-match panel that may lack a column, and build_feature_dataset run   *)
(* on data files that may lack one.                                        *)
(***************************************************************************)
SchemaMatches ==
    {Match(1, <<"Arsenal", "Chelsea">>, ftr, hg, 0, NA, 1, 0, 1) :
        ftr \in {"H", "D"}, hg \in Counts}

InitSchema ==
    /\ op = "input"
    /\ arg \in StatPanels(SchemaMatches)
    /\ ret = None
    /\ matchesFile \in MatchFiles
    /\ xgFile \in XgFiles
    /\ featuresFile = Absent
    /\ pricingFile = Absent

NextSchema == CallAddBasicFeatures \/ BuildFeatureDataset

SpecSchema == InitSchema /\ [][NextSchema]_vars

\* C9: add_basic_features raises on a panel without goals_against or
\* without pts, and a failed build_feature_dataset leaves no features file
\* behind; a panel without xG_for or xG_against is no error, the missing
\* column comes back as zeros.
C9_RequiredColumns ==
    /\ op = "add_basic_features" =>
          /\ {"goals_against", "pts"} \ arg.cols # {} => ~ ret.ok
          /\ {"goals_against", "pts", "yellow", "opponent"} \subseteq arg.cols =>
                /\ ret.ok
                /\ Len(ret.rows) = Len(arg.rows)
                /\ \A c \in {"xG_for", "xG_against"} \ arg.cols :
                      \A r \in Range(ret.rows) : r[c] = FromInt(0)
    /\ op = "build_feature_dataset" =>
          /\ ~ ret.ok => ~ featuresFile.exists
          /\ featuresFile.exists =>
                PanelCols \cup FeatureCols \subseteq Range(featuresFile.header)

\* build_feature_dataset has failed on a results file without FTAG (the
\* source of goals_against) and written nothing, after add_basic_features
\* raised on a panel without goals_against
C9_Witness ==
    /\ op = "build_feature_dataset"
    /\ ~ ret.ok
    /\ "FTAG" \notin Range(matchesFile.header)
    /\ ~ featuresFile.exists
    /\ arg.ok
    /\ "goals_against" \notin arg.cols
    /\ ~ AddBasicFeatures(arg).ok

(***************************************************************************)
(* Properties of the pipeline.                                             *)
(***************************************************************************)
\* C8 as stated: the priced dataset of a run, build_feature_dataset followed
\* by build_pricing_dataset, is the pricing of the features of that run's
\* own inputs (saved and read back), whatever earlier runs left on disk.
C8_RunsIndependent ==
    [][(/\ op = "build_feature_dataset"
        /\ ret.ok
        /\ op' = "build_pricing_dataset")
       => ret' = PricedFrom(ReadCsv(ToCsv(FreshFeatures(matchesFile, xgFile))),
                            None)]_vars

\* C10: only a build_feature_dataset run that finds no features file writes
\* one; a run that finds one leaves it as it is and still returns the
\* features of the current inputs; a build_pricing_dataset run with
\* save_to_csv=True that completes replaces the pricing file.
C10_CreateIfAbsent ==
    [][/\ (featuresFile' # featuresFile /\ op' # "remove_features_file") =>
             op' = "build_feature_dataset" /\ ~ featuresFile.exists
       /\ (op' = "build_feature_dataset" /\ featuresFile.exists) =>
             /\ featuresFile' = featuresFile
             /\ ret' = FreshFeatures(matchesFile', xgFile')
             /\ ret'.ok =>
                   \A r \in Range(ret'.rows) :
                       \E l \in Range(ReadCsv(matchesFile').rows) :
                           /\ l.Date = r.date
                           /\ r.team \in {l.HomeTeam, l.AwayTeam}
       /\ (op' = "build_pricing_dataset" /\ arg'.save_to_csv /\ ret'.ok) =>
             pricingFile' = ToCsv(ret')
       /\ (pricingFile' # pricingFile) =>
             op' = "build_pricing_dataset" /\ arg'.save_to_csv
      ]_vars

\* build_feature_dataset has returned features that differ from the file
\* it found and left, next to the pricing file build_pricing_dataset wrote
\* from that file
C10_Witness ==
    /\ op = "build_feature_dataset"
    /\ ret.ok
    /\ featuresFile.exists
    /\ featuresFile # ToCsv(ret)
    /\ pricingFile.exists
    /\ pricingFile = ToCsv(PricedFrom(ReadCsv(featuresFile), None))
    /\ Len(pricingFile.lines) = 2

====
